---------------------------- MODULE Spec2Model ----------------------------
(***************************************************************************)
(* A model of jordan2033/breaking-news-bot.                                *)
(*                                                                         *)
(* Two programs live in the repository:                                    *)
(*   src/breaking_news_bot.py  class BreakingNewsBot2026 ("v2026"): scored *)
(*       relevance, identities persisted in seen_news.json, top-3 alerts;  *)
(*   src/breaking-news-bot.py  class BreakingNewsBot ("legacy"): keyword   *)
(*       relevance, in-memory seen set only, first-5 alerts.               *)
(* The variable `variant` says which of the two a run executes.            *)
(*                                                                         *)
(* Titles, keywords and feed names are TLA+ strings; substring search,     *)
(* upper(), strip(), split() and slicing are computed on them.  Time is    *)
(* counted in whole hours.  hashlib.md5(..).hexdigest() is modelled as a   *)
(* collision-free tagging of the hashed string.                            *)
(***************************************************************************)
EXTENDS Integers, Sequences, FiniteSets, TLC

VARIABLES
    variant,        \* which program the current run executes
    file,           \* seen_news.json on disk
    now,            \* wall clock, in hours
    pc,             \* position of the process: idle, fetch, send, done
    webhook_url,    \* DISCORD_WEBHOOK as read by main()
    exit_status,    \* exit status of the last finished process
    seen_news,      \* self.seen_news
    feed_idx,       \* index of the feed being fetched (in iteration order)
    entry_idx,      \* entries of the current feed examined so far
    news_items,     \* fetch_feed's local list
    all_news,       \* fetch_all_news' / fetch_news' list
    top_news,       \* the items selected for delivery
    attempts,       \* delivery attempts made, in order: [id, ok]
    success_count,  \* run_once's success_count
    served,         \* entries the feeds have served in this run
    op,             \* the last step taken and what it did (observation)
    hist,           \* observations kept across runs
    conc            \* runs that share the backing file at the same time

vars == <<variant, file, now, pc, webhook_url, exit_status, seen_news,
          feed_idx, entry_idx, news_items, all_news, top_news, attempts,
          success_count, served, op, hist, conc>>

----------------------------------------------------------------------------
(* Strings                                                                 *)

\* Python's  k in s  for strings: k occurs as a contiguous substring of s.
Contains(s, k) ==
    \E i \in 1..(Len(s) - Len(k) + 1) : SubSeq(s, i, i + Len(k) - 1) = k

\* Python's  s[:n]
Prefix(s, n) == IF Len(s) <= n THEN s ELSE SubSeq(s, 1, n)

LowerChars == <<"a","b","c","d","e","f","g","h","i","j","k","l","m",
                "n","o","p","q","r","s","t","u","v","w","x","y","z">>
UpperChars == <<"A","B","C","D","E","F","G","H","I","J","K","L","M",
                "N","O","P","Q","R","S","T","U","V","W","X","Y","Z">>

UpperChar(c) ==
    IF \E i \in 1..26 : LowerChars[i] = c
    THEN UpperChars[CHOOSE i \in 1..26 : LowerChars[i] = c]
    ELSE c

\* str.upper()
RECURSIVE Upper(_)
Upper(s) ==
    IF Len(s) = 0 THEN ""
    ELSE UpperChar(SubSeq(s, 1, 1)) \o Upper(SubSeq(s, 2, Len(s)))

IsSpace(c) == c \in {" ", "\t", "\n", "\r"}

\* str.strip(): leading and trailing whitespace removed
RECURSIVE Strip(_)
Strip(s) ==
    IF Len(s) = 0 THEN s
    ELSE IF IsSpace(SubSeq(s, 1, 1)) THEN Strip(SubSeq(s, 2, Len(s)))
    ELSE IF IsSpace(SubSeq(s, Len(s), Len(s)))
         THEN Strip(SubSeq(s, 1, Len(s) - 1))
    ELSE s

\* len(s.split()): the number of maximal runs of non-whitespace characters
RECURSIVE WordCount(_)
WordCount(s) ==
    IF Len(s) = 0 THEN 0
    ELSE IF IsSpace(SubSeq(s, 1, 1)) THEN WordCount(SubSeq(s, 2, Len(s)))
    ELSE IF Len(s) = 1 \/ IsSpace(SubSeq(s, 2, 2))
         THEN 1 + WordCount(SubSeq(s, 2, Len(s)))
    ELSE WordCount(SubSeq(s, 2, Len(s)))

\* the elements of a sequence
Range(q) == {q[i] : i \in 1..Len(q)}

\* sum of f[i] over the indices i of a sequence of numbers
RECURSIVE SumSeq(_)
SumSeq(q) == IF Len(q) = 0 THEN 0 ELSE Head(q) + SumSeq(Tail(q))

----------------------------------------------------------------------------
(* Configuration of src/breaking_news_bot.py                               *)

HIGH_IMPACT_ES_NQ == <<
    "FOMC", "FED RATE DECISION", "INTEREST RATE HIKE", "INTEREST RATE CUT",
    "QUANTITATIVE TIGHTENING", "BALANCE SHEET", "POWELL", "CENTRAL BANK",
    "CPI", "PCE", "INFLATION REPORT", "NONFARM PAYROLLS", "NFP",
    "UNEMPLOYMENT RATE", "JOLTS", "WAGE GROWTH",
    "GDP", "RECESSION", "MANUFACTURING PMI", "SERVICES PMI",
    "RETAIL SALES", "CONSUMER CONFIDENCE",
    "GOVERNMENT SHUTDOWN", "DEBT CEILING", "BUDGET DEFICIT",
    "TAX LEGISLATION", "STIMULUS PACKAGE",
    "TAIWAN STRAIT", "CHINA TARIFF", "TRADE WAR", "SANCTIONS",
    "MIDDLE EAST CONFLICT", "OIL EMBARGO", "RUSSIA UKRAINE",
    "AI REGULATION", "SEMICONDUCTOR BAN", "CHIP ACT", "ANTITRUST",
    "APPLE", "MICROSOFT", "NVIDIA", "META", "TESLA", "GOOGLE",
    "OPEC+", "CRUDE OIL", "NATURAL GAS", "ENERGY CRISIS",
    "VENEZUELA OIL", "SAUDI ARAMCO",
    "BANK FAILURE", "COMMERCIAL REAL ESTATE", "DEBT DEFAULT",
    "MONEY MARKET", "REPO MARKET", "MARGIN CALL" >>

URGENT_TRIGGERS == <<
    "BREAKING", "URGENT", "ALERT", "FLASH", "JUST IN",
    "HALT", "SUSPENDED", "CRASH", "PLUNGE", "SURGE",
    "EMERGENCY", "CRISIS", "WARNING" >>

recent_keywords == << "TODAY", "NOW", "MINUTES AGO", "JUST", "LIVE" >>

irrelevant_terms == << "SPORTS", "ENTERTAINMENT", "CELEBRITY", "RECIPE",
                       "WEATHER", "HOROSCOPE", "GOSSIP", "FASHION" >>

RSS_FEEDS == <<
    [name |-> "Reuters Breaking News",   priority |-> 10],
    [name |-> "Bloomberg Markets",       priority |-> 9],
    [name |-> "Financial Times US",      priority |-> 8],
    [name |-> "CNBC Market News",        priority |-> 7],
    [name |-> "Yahoo Finance",           priority |-> 6],
    [name |-> "MarketWatch Top Stories", priority |-> 5] >>

(* Configuration of src/breaking-news-bot.py                               *)

MAJOR_KEYWORDS == <<
    "FOMC", "FED RATE", "INTEREST RATE", "INFLATION", "CPI", "PPI",
    "NFP", "NONFARM PAYROLLS", "UNEMPLOYMENT", "YIELD CURVE", "10Y",
    "OBBBA", "TAX CUT", "DEREGULATION", "GOVERNMENT SHUTDOWN",
    "MIDTERM ELECTION", "SUPREME COURT TARIFF", "USMCA",
    "AI MONETIZATION", "RUBIN CHIP", "SEMICONDUCTOR TARIFF",
    "QUANTUM COMPUTING", "SOVEREIGN AI", "HYPERSCALER CAPEX", "CES 2026",
    "VENEZUELA OIL", "MADURO", "CRUDE OIL", "OPEC+", "TAIWAN STRAIT",
    "TRADE WAR", "CHINA EXPORT BAN", "LITHIUM SUPPLY" >>

LEGACY_URGENT_TRIGGERS == << "BREAKING", "URGENT", "ALERT", "HALT", "FLASH" >>

\* The legacy feeds carry no priority; 0 stands for the missing field.
LEGACY_RSS_FEEDS == <<
    [name |-> "Yahoo Finance",    priority |-> 0],
    [name |-> "Reuters Business", priority |-> 0],
    [name |-> "Investing.com",    priority |-> 0],
    [name |-> "MarketWatch",      priority |-> 0] >>

----------------------------------------------------------------------------
(* Pure functions                                                          *)

\* a variation of calculate_impact_score: an urgency trigger weighs no more
\* than a one-word keyword
calculate_impact_score_weak_urgency(title) ==
    LET title_upper == Upper(title)
        urgent == [i \in 1..Len(URGENT_TRIGGERS) |->
                     IF Contains(title_upper, URGENT_TRIGGERS[i])
                     THEN 10 ELSE 0]
        topical == [i \in 1..Len(HIGH_IMPACT_ES_NQ) |->
                     IF Contains(title_upper, HIGH_IMPACT_ES_NQ[i])
                     THEN WordCount(HIGH_IMPACT_ES_NQ[i]) * 10 ELSE 0]
        recent == [i \in 1..Len(recent_keywords) |->
                     IF Contains(title_upper, recent_keywords[i])
                     THEN 20 ELSE 0]
    IN  SumSeq(urgent) + SumSeq(topical) + SumSeq(recent)

\* a variation of calculate_impact_score: every keyword weighs the same,
\* however many words it has
calculate_impact_score_flat(title) ==
    LET title_upper == Upper(title)
        urgent == [i \in 1..Len(URGENT_TRIGGERS) |->
                     IF Contains(title_upper, URGENT_TRIGGERS[i])
                     THEN 100 ELSE 0]
        topical == [i \in 1..Len(HIGH_IMPACT_ES_NQ) |->
                     IF Contains(title_upper, HIGH_IMPACT_ES_NQ[i])
                     THEN 10 ELSE 0]
        recent == [i \in 1..Len(recent_keywords) |->
                     IF Contains(title_upper, recent_keywords[i])
                     THEN 20 ELSE 0]
    IN  SumSeq(urgent) + SumSeq(topical) + SumSeq(recent)

\* calculate_impact_score
calculate_impact_score(title) ==
    LET title_upper == Upper(title)
        urgent == [i \in 1..Len(URGENT_TRIGGERS) |->
                     IF Contains(title_upper, URGENT_TRIGGERS[i])
                     THEN 100 ELSE 0]
        topical == [i \in 1..Len(HIGH_IMPACT_ES_NQ) |->
                     IF Contains(title_upper, HIGH_IMPACT_ES_NQ[i])
                     THEN WordCount(HIGH_IMPACT_ES_NQ[i]) * 10 ELSE 0]
        recent == [i \in 1..Len(recent_keywords) |->
                     IF Contains(title_upper, recent_keywords[i])
                     THEN 20 ELSE 0]
    IN  SumSeq(urgent) + SumSeq(topical) + SumSeq(recent)

\* BreakingNewsBot2026.is_relevant_news: <<is_relevant, score>>
is_relevant_news(title) ==
    LET title_upper == Upper(title)
    IN  IF \E i \in 1..Len(irrelevant_terms) :
                Contains(title_upper, irrelevant_terms[i])
        THEN <<FALSE, 0>>
        ELSE LET score == calculate_impact_score(title)
             IN  <<score >= 30, score>>

\* BreakingNewsBot.is_major_news
is_major_news(title) ==
    LET title_upper == Upper(title)
    IN  \/ \E i \in 1..Len(LEGACY_URGENT_TRIGGERS) :
                Contains(title_upper, LEGACY_URGENT_TRIGGERS[i])
        \/ \E i \in 1..Len(MAJOR_KEYWORDS) :
                Contains(title_upper, MAJOR_KEYWORDS[i])

\* hashlib.md5(s.encode()).hexdigest(), taken to be collision-free
md5(s) == <<"md5", s>>

\* a variation of generate_news_id: the source is left out
generate_news_id_title_only(title, source) ==
    md5(Prefix(title, 100) \o "_")

\* generate_news_id
generate_news_id(title, source) ==
    md5(Prefix(title, 100) \o "_" \o Prefix(source, 10))

\* the identity computed inline by BreakingNewsBot.fetch_news
legacy_news_id(title) == md5(title)


----------------------------------------------------------------------------
(* Bounds of the model                                                     *)

MaxEntries == 2     \* entries the feeds serve in one run, over all feeds
MaxRuns    == 2     \* processes started one after the other
StartHour  == 50    \* the clock at the beginning
MaxTime    == 100   \* the clock stops advancing here
MaxItems   == 6     \* items a fetch returns, where the selection is tried

\* hours by which the clock advances between two processes
TimeSteps == {24}

\* the titles the feeds may carry
Titles == { "BREAKING: FOMC cuts rates",
            " CPI inflation report today ",
            "Local team wins championship, weather sunny" }

\* the feeds that carry entries; every other feed is fetched and comes back
\* without entries, or fails
LiveFeeds == {"Reuters Breaking News", "Yahoo Finance", "Reuters Business"}

\* the titles of the items that the selection is tried on
SelectTitles == { "BREAKING: FOMC cuts rates",
                  "URGENT: FOMC decision",
                  "CPI inflation report today",
                  "Taiwan Strait trade war",
                  "Crude oil plunge",
                  "Government shutdown now" }

\* a feed entry: its title and link, either of which may be missing
Entries ==
    [title : Titles, has_title : {TRUE}, has_link : BOOLEAN]
    \cup { [title |-> "", has_title |-> FALSE, has_link |-> TRUE] }

----------------------------------------------------------------------------
(* The Seen-Item Store: seen_news.json                                     *)

RETENTION_HOURS == 48

\* a timestamp of the file: the ISO-8601 string of hour t, or a value that
\* datetime.fromisoformat or the comparison with the cutoff rejects
Iso(t)  == [iso |-> TRUE,  t |-> t]
BadTs   == [iso |-> FALSE, t |-> 0]

\* states of the file.  kind: absent (no file), empty (zero bytes), garbage
\* (not JSON), nondict (JSON, but not an object), dict (a JSON object)
AbsentFile  == [kind |-> "absent",  data |-> << >>]
EmptyFile   == [kind |-> "empty",   data |-> << >>]
GarbageFile == [kind |-> "garbage", data |-> << >>]
NonDictFile == [kind |-> "nondict", data |-> << >>]
DictFile(d) == [kind |-> "dict",    data |-> d]

\* os.path.exists(SEEN_NEWS_FILE)
Exists(f) == f.kind # "absent"

\* json.load(f) succeeds
JsonLoads(f) == f.kind \in {"nondict", "dict"}

\* what a write of the file leaves behind when the process is killed between
\* open(.., 'w'), which truncates, and the end of json.dump
TornFiles == {EmptyFile, GarbageFile}

\* a variation of Fresh: the comparison with the cutoff is not strict
FreshInclusive(ts, t) == ts.t >= t - RETENTION_HOURS

\* datetime.fromisoformat(timestamp) > cutoff_time, cutoff = now - 48 h
Fresh(ts, t) == ts.t > t - RETENTION_HOURS

\* a variation of load_seen_news: no try/except around the body
load_seen_news_uncaught(f, t) ==
    IF ~Exists(f) THEN [ret |-> {}, file |-> f, raised |-> FALSE]
    ELSE IF ~JsonLoads(f) THEN [ret |-> {}, file |-> f, raised |-> TRUE]
    ELSE IF f.kind = "nondict"
         THEN [ret |-> {}, file |-> f, raised |-> TRUE]
    ELSE IF \E k \in DOMAIN f.data : ~f.data[k].iso
         THEN [ret |-> {}, file |-> f, raised |-> TRUE]
    ELSE LET keep == {k \in DOMAIN f.data : Fresh(f.data[k], t)}
             cleaned_data == [k \in keep |-> f.data[k]]
         IN  [ret |-> keep, file |-> DictFile(cleaned_data), raised |-> FALSE]

\* a variation of load_seen_news: nothing is purged
load_seen_news_no_purge(f, t) ==
    IF ~Exists(f) THEN [ret |-> {}, file |-> f, raised |-> FALSE]
    ELSE IF ~JsonLoads(f) THEN [ret |-> {}, file |-> f, raised |-> FALSE]
    ELSE IF f.kind = "nondict"
         THEN [ret |-> {}, file |-> f, raised |-> FALSE]
    ELSE IF \E k \in DOMAIN f.data : ~f.data[k].iso
         THEN [ret |-> {}, file |-> f, raised |-> FALSE]
    ELSE [ret |-> DOMAIN f.data, file |-> f, raised |-> FALSE]

\* load_seen_news at hour t: the set returned, the file left behind, and
\* whether an exception leaves the function (none does: it catches them all)
load_seen_news(f, t) ==
    IF ~Exists(f) THEN [ret |-> {}, file |-> f, raised |-> FALSE]
    ELSE IF ~JsonLoads(f) THEN [ret |-> {}, file |-> f, raised |-> FALSE]
    ELSE IF f.kind = "nondict"           \* data.items() raises
         THEN [ret |-> {}, file |-> f, raised |-> FALSE]
    ELSE IF \E k \in DOMAIN f.data : ~f.data[k].iso   \* fromisoformat raises
         THEN [ret |-> {}, file |-> f, raised |-> FALSE]
    ELSE LET keep == {k \in DOMAIN f.data : Fresh(f.data[k], t)}
             cleaned_data == [k \in keep |-> f.data[k]]
         IN  [ret |-> keep, file |-> DictFile(cleaned_data), raised |-> FALSE]

\* the file holds a mapping whose timestamps all parse: load_seen_news
\* reaches its open(.., 'w')
ValidFile(f) == f.kind = "dict" /\ \A k \in DOMAIN f.data : f.data[k].iso

\* the file is absent or holds a mapping whose timestamps all parse
Usable(f) == f.kind = "absent" \/ ValidFile(f)

\* a variation of save_seen_news: the file is written without being read
save_seen_news_fresh(news_id, f, t) ==
    DictFile([k \in {news_id} |-> Iso(t)])

\* save_seen_news(news_id) at hour t: the file left behind
save_seen_news(news_id, f, t) ==
    IF ~Exists(f) THEN DictFile([k \in {news_id} |-> Iso(t)])
    ELSE IF ~JsonLoads(f) THEN f           \* json.load raises, caught
    ELSE IF f.kind = "nondict" THEN f      \* data[news_id] = .. raises, caught
    ELSE DictFile([k \in DOMAIN f.data \cup {news_id} |->
                     IF k = news_id THEN Iso(t) ELSE f.data[k]])

\* save_seen_news reaches its open(.., 'w')
SaveRewrites(f) == ~Exists(f) \/ f.kind = "dict"


----------------------------------------------------------------------------
(* Ordering, selection                                                     *)

\* tuple comparison of Python on pairs of integers
PairGreater(a, b) == a[1] > b[1] \/ (a[1] = b[1] /\ a[2] > b[2])

\* list.sort(key=.., reverse=True) / sorted(.., reverse=True): descending by
\* key, elements with equal keys keep their order (the sort is stable)
SortDesc(q, keys) ==
    LET n == Len(q)
        rank(i) == Cardinality({j \in 1..n : PairGreater(keys[j], keys[i])})
                 + Cardinality({j \in 1..(i-1) : keys[j] = keys[i]}) + 1
    IN  [p \in 1..n |-> q[CHOOSE i \in 1..n : rank(i) = p]]

\* the feeds in the order a run visits them
sorted_feeds(v) ==
    IF v = "v2026"
    THEN SortDesc(RSS_FEEDS,
                  [i \in 1..Len(RSS_FEEDS) |-> <<RSS_FEEDS[i].priority, 0>>])
    ELSE LEGACY_RSS_FEEDS

\* feed_data.entries[:10] / feed_data.entries[:15]
ENTRY_CAP_2026   == 10
ENTRY_CAP_LEGACY == 15

\* a variation of EntryCap: the slice takes one entry more
EntryCapLoose(v) ==
    IF v = "v2026" THEN ENTRY_CAP_2026 + 1 ELSE ENTRY_CAP_LEGACY + 1

EntryCap(v) == IF v = "v2026" THEN ENTRY_CAP_2026 ELSE ENTRY_CAP_LEGACY

\* all_news[:3] / major_news[:5]
SEND_BUDGET_2026   == 3
SEND_BUDGET_LEGACY == 5

\* run_once: the items handed to delivery, in delivery order
SortedNews(q) ==
    SortDesc(q, [i \in 1..Len(q) |-> <<q[i].score, q[i].priority>>])

\* a variation of select_top: the sort is lost
select_top_unsorted(v, q) ==
    IF v = "v2026" THEN Prefix(q, SEND_BUDGET_2026)
    ELSE Prefix(q, SEND_BUDGET_LEGACY)

select_top(v, q) ==
    IF v = "v2026" THEN Prefix(SortedNews(q), SEND_BUDGET_2026)
    ELSE Prefix(q, SEND_BUDGET_LEGACY)

\* the relevance and the score of every title the feeds may carry, computed
\* once: is_relevant_news and is_major_news tabulated over the titles
KnownTitles == LET all == Titles \cup SelectTitles
               IN  all \cup {Strip(t) : t \in all}
StripTable    == [t \in Titles \cup SelectTitles |-> Strip(t)]
RelevantTable == [t \in KnownTitles |-> is_relevant_news(t)]
MajorTable    == [t \in KnownTitles |-> is_major_news(t)]
SortedFeeds2026 == sorted_feeds("v2026")
FeedsOf(v) == IF v = "v2026" THEN SortedFeeds2026 ELSE LEGACY_RSS_FEEDS

\* the dict appended by fetch_feed / fetch_news (the legacy dict has neither
\* score nor priority: 0 stands for the missing fields)
NewsItem(v, feed, title) ==
    IF v = "v2026"
    THEN [id |-> generate_news_id(title, feed.name), title |-> title,
          source |-> feed.name, score |-> RelevantTable[title][2],
          priority |-> feed.priority]
    ELSE [id |-> legacy_news_id(title), title |-> title,
          source |-> feed.name, score |-> 0, priority |-> 0]

\* the title a run works with: entry.title.strip() / entry.title
TitleOf(v, e) == IF v = "v2026" THEN StripTable[e.title] ELSE e.title

\* the relevance gate of the aggregator
Relevant(v, title) ==
    IF v = "v2026" THEN RelevantTable[title][1] ELSE MajorTable[title]

\* a variation of AlreadySeen: the membership test is lost
AlreadySeenNever(news_id, seen) == FALSE

\* if news_id in self.seen_news
AlreadySeen(news_id, seen) == news_id \in seen


----------------------------------------------------------------------------
(* The process: main(), the bot's constructor and run_once                 *)

Webhooks == {"", "https://discord.example/webhook"}

NoOp == [name |-> "none"]

\* no runs share the backing file: one process at a time
NoRuns == << >>

\* what is kept across runs, for the properties below
\*   runs       processes started so far
\*   start      the hour the current run started
\*   loaded     self.seen_news as the constructor left it
\*   start_ok   the file as the constructor left it is absent or a well-
\*              formed mapping
\*   recorded   identities marked seen (add + save_seen_news) in this run
\*   visited    the feeds whose fetch has returned in this run, in order
\*   fetched    the list fetch_all_news / fetch_news returned in this run
\*   emitted    for every (title, source) emitted so far, its last
\*              emission: the item's identity, the hour and the run
\*   purged     the entries that a load has dropped from the file so far:
\*              the identity, the timestamp it had and the hour of the load
HistInit == [runs |-> 0, start |-> StartHour, loaded |-> {},
             start_ok |-> TRUE, recorded |-> {}, visited |-> << >>,
             fetched |-> << >>, emitted |-> {}, purged |-> {}]

\* the entries of file f that are missing from file g
Dropped(f, g, t) ==
    IF f.kind = "dict" /\ g.kind = "dict"
    THEN {[id |-> k, ts |-> f.data[k], at |-> t] :
            k \in DOMAIN f.data \ DOMAIN g.data}
    ELSE {}

\* the items the current run has emitted so far
Emitted == all_news \o news_items

\* run_once after fetch_all_news / fetch_news has returned `fetched`
AfterFetch(fetched) ==
    IF Len(fetched) = 0
    THEN /\ pc' = "done"
         /\ exit_status' = "0"
         /\ all_news' = fetched
         /\ top_news' = << >>
    ELSE /\ pc' = "send"
         /\ exit_status' = exit_status
         /\ all_news' = IF variant = "v2026" THEN SortedNews(fetched)
                        ELSE fetched
         /\ top_news' = select_top(variant, fetched)

\* fetch_feed returns `items` (or the legacy loop over one feed ends)
FeedReturns(items) ==
    LET fetched == all_news \o items
    IN  /\ news_items' = << >>
        /\ entry_idx' = 0
        /\ feed_idx' = feed_idx + 1
        /\ hist' = [hist EXCEPT !.visited = Append(@, feed_idx),
                      !.fetched = IF feed_idx = Len(FeedsOf(variant))
                                  THEN fetched ELSE @]
        /\ IF feed_idx = Len(FeedsOf(variant))
           THEN AfterFetch(fetched)
           ELSE /\ all_news' = fetched
                /\ UNCHANGED <<pc, exit_status, top_news>>

\* a variation of ReturnedOnError: the items found so far are dropped
ReturnedOnErrorNothing(items) == << >>

\* what fetch_feed hands back when its try block raises
ReturnedOnError(items) == items

\* h records an emission of the (title, source) of item
SameEntry(h, item) == h.title = item.title /\ h.source = item.source

\* main(): a process starts
Start(w) ==
    /\ pc \in {"idle", "done"}
    /\ hist.runs < MaxRuns
    /\ webhook_url' = w
    /\ news_items' = << >> /\ all_news' = << >> /\ top_news' = << >>
    /\ attempts' = << >> /\ success_count' = 0
    /\ feed_idx' = 1 /\ entry_idx' = 0 /\ served' = 0
    /\ UNCHANGED <<conc, variant, now>>
    /\ LET r == IF variant = "v2026" /\ w # ""
                THEN load_seen_news(file, now)
                ELSE [ret |-> {}, file |-> file, raised |-> FALSE]
       IN  /\ seen_news' = r.ret
           /\ file' = r.file
           /\ hist' = [hist EXCEPT !.runs = @ + 1, !.start = now,
                         !.loaded = r.ret, !.start_ok = Usable(r.file),
                         !.recorded = {}, !.visited = << >>,
                         !.fetched = << >>,
                         !.purged = @ \cup Dropped(file, r.file, now)]
           /\ op' = [name |-> "start", file_before |-> file,
                     loads |-> (variant = "v2026" /\ w # ""),
                     prev_recorded |-> hist.recorded,
                     prev_start |-> hist.start,
                     prev_start_ok |-> hist.start_ok,
                     prev_killed |-> (exit_status = "killed")]
           /\ IF w = ""
              THEN /\ pc' = "done"
                   /\ exit_status' = IF variant = "v2026" THEN "1" ELSE "0"
              ELSE IF r.raised
              THEN /\ pc' = "done"
                   /\ exit_status' = "1"
              ELSE /\ pc' = "fetch"
                   /\ exit_status' = "running"

\* one pass of the loop over feed_data.entries[:10] (legacy: [:15]), on
\* entry e
Examine(e) ==
    /\ pc = "fetch"
    /\ entry_idx < EntryCap(variant)
    /\ FeedsOf(variant)[feed_idx].name \in LiveFeeds
    /\ UNCHANGED <<conc, variant, now, webhook_url, attempts, success_count>>
    /\ LET feed  == FeedsOf(variant)[feed_idx]
           title == IF e.has_title THEN TitleOf(variant, e) ELSE ""
           item  == NewsItem(variant, feed, title)
           before == Emitted
       IN  IF ~e.has_title
           THEN \* entry.title raises AttributeError
                /\ FeedReturns(ReturnedOnError(news_items))
                /\ UNCHANGED <<seen_news, file>>
                /\ op' = [name |-> "entry", outcome |-> "raised",
                          feed |-> feed_idx, before |-> before,
                          in_feed |-> Len(news_items)]
           ELSE IF ~Relevant(variant, title)
           THEN /\ entry_idx' = entry_idx + 1
                /\ UNCHANGED <<seen_news, file, feed_idx, news_items,
                               all_news, top_news, pc, exit_status, hist>>
                /\ op' = [name |-> "entry", outcome |-> "irrelevant",
                          feed |-> feed_idx, before |-> before]
           ELSE IF AlreadySeen(item.id, seen_news)
           THEN /\ entry_idx' = entry_idx + 1
                /\ UNCHANGED <<seen_news, file, feed_idx, news_items,
                               all_news, top_news, pc, exit_status, hist>>
                /\ op' = [name |-> "entry", outcome |-> "seen",
                          feed |-> feed_idx, before |-> before]
           ELSE IF ~e.has_link
           THEN \* entry.link raises AttributeError
                /\ FeedReturns(ReturnedOnError(news_items))
                /\ UNCHANGED <<seen_news, file>>
                /\ op' = [name |-> "entry", outcome |-> "raised",
                          feed |-> feed_idx, before |-> before,
                          in_feed |-> Len(news_items)]
           ELSE /\ entry_idx' = entry_idx + 1
                /\ seen_news' = seen_news \cup {item.id}
                /\ IF variant = "v2026"
                   THEN /\ news_items' = Append(news_items, item)
                        /\ file' = save_seen_news(item.id, file, now)
                        /\ all_news' = all_news
                   ELSE /\ all_news' = Append(all_news, item)
                        /\ UNCHANGED <<news_items, file>>
                /\ hist' = [hist EXCEPT
                              !.recorded = @ \cup {item.id},
                              !.emitted = {h \in @ : ~SameEntry(h, item)}
                                  \cup {[title |-> item.title,
                                  source |-> item.source, id |-> item.id,
                                  t |-> now, run |-> hist.runs]}]
                /\ UNCHANGED <<feed_idx, top_news, pc, exit_status>>
                /\ op' = [name |-> "entry", outcome |-> "emitted",
                          feed |-> feed_idx, before |-> before,
                          item |-> item,
                          earlier |-> {h \in hist.emitted :
                                         SameEntry(h, item)}]

\* one pass of the loop, while the feeds have entries left to serve
ProcessEntry(e) ==
    /\ served < MaxEntries
    /\ served' = served + 1
    /\ Examine(e)

\* feedparser.parse (or the delay before it) raises
FeedFails ==
    /\ pc = "fetch"
    /\ entry_idx = 0
    /\ FeedReturns(ReturnedOnError(news_items))
    /\ op' = [name |-> "feed", outcome |-> "raised", feed |-> feed_idx,
              before |-> Emitted]
    /\ UNCHANGED <<conc, variant, file, now, webhook_url, seen_news, attempts,
                   success_count, served>>

\* the feed has no (more) entries, or the cap on entries is reached
FeedEnds ==
    /\ pc = "fetch"
    /\ FeedReturns(news_items)
    /\ op' = [name |-> "feed", outcome |-> "returned", feed |-> feed_idx,
              before |-> Emitted]
    /\ UNCHANGED <<conc, variant, file, now, webhook_url, seen_news, attempts,
                   success_count, served>>

\* a variation of CountDelivery: the attempt is counted whatever it returned
CountDeliveryAlways(v, count, ok) ==
    IF v = "v2026" THEN count + 1 ELSE count

\* if self.send_to_discord(message): success_count += 1   (the legacy
\* run_once drops what send_to_discord returns and counts nothing)
CountDelivery(v, count, ok) ==
    IF v = "v2026" /\ ok THEN count + 1 ELSE count

\* one delivery: format the item, post it, count a 204
SendNext(ok) ==
    /\ pc = "send"
    /\ Len(attempts) < Len(top_news)
    /\ LET news == top_news[Len(attempts) + 1]
       IN  attempts' = Append(attempts, [id |-> news.id, ok |-> ok])
    /\ success_count' = CountDelivery(variant, success_count, ok)
    /\ IF Len(attempts) + 1 = Len(top_news)
       THEN pc' = "done" /\ exit_status' = "0"
       ELSE UNCHANGED <<pc, exit_status>>
    /\ op' = [name |-> "send", ok |-> ok]
    /\ UNCHANGED <<conc, variant, file, now, webhook_url, seen_news, feed_idx,
                   entry_idx, news_items, all_news, top_news, served, hist>>

\* the memory of a process that is killed is gone
MemoryLost ==
    /\ seen_news' = {}
    /\ news_items' = << >> /\ all_news' = << >> /\ top_news' = << >>
    /\ attempts' = << >> /\ success_count' = 0
    /\ feed_idx' = 1 /\ entry_idx' = 0 /\ served' = 0

\* the process is killed between two steps
Killed ==
    /\ pc \in {"fetch", "send"}
    /\ pc' = "done"
    /\ exit_status' = "killed"
    /\ MemoryLost
    /\ op' = [name |-> "killed", in_write |-> FALSE]
    /\ UNCHANGED <<conc, variant, file, now, webhook_url, hist>>

\* the process is killed while save_seen_news writes the file for an entry
\* that is being emitted: the file was opened for writing, the dump is not
\* complete
KilledInSave(e, torn) ==
    /\ pc = "fetch"
    /\ variant = "v2026"
    /\ entry_idx < EntryCap(variant)
    /\ served < MaxEntries
    /\ FeedsOf(variant)[feed_idx].name \in LiveFeeds
    /\ e.has_title /\ e.has_link
    /\ LET feed  == FeedsOf(variant)[feed_idx]
           title == TitleOf(variant, e)
           item  == NewsItem(variant, feed, title)
       IN  /\ Relevant(variant, title)
           /\ ~AlreadySeen(item.id, seen_news)
           /\ SaveRewrites(file)
    /\ file' = torn
    /\ pc' = "done"
    /\ exit_status' = "killed"
    /\ MemoryLost
    /\ op' = [name |-> "killed", in_write |-> TRUE]
    /\ UNCHANGED <<conc, variant, now, webhook_url, hist>>

\* time passes between two processes; the process that has ended is gone,
\* and with it what it held in memory
Tick(d) ==
    /\ pc \in {"idle", "done"}
    /\ now + d <= MaxTime
    /\ now' = now + d
    /\ pc' = "idle"
    /\ MemoryLost
    /\ hist' = [hist EXCEPT !.visited = << >>, !.fetched = << >>]
    /\ op' = [name |-> "tick"]
    /\ UNCHANGED <<conc, variant, file, webhook_url, exit_status>>

----------------------------------------------------------------------------
(* The system: one program, run again and again on one backing file        *)

\* identities that may already be in the file
PriorId == generate_news_id("BREAKING: FOMC cuts rates",
                            "Reuters Breaking News")

\* the backing file the first process finds
InitFiles ==
    { AbsentFile, EmptyFile, GarbageFile, NonDictFile,
      DictFile(<< >>),
      DictFile([k \in {PriorId} |-> Iso(StartHour - 2)]),
      DictFile([k \in {PriorId} |-> BadTs]) }

Init ==
    /\ variant \in {"v2026", "legacy"}
    /\ file \in (IF variant = "v2026" THEN InitFiles ELSE {AbsentFile})
    /\ now = StartHour
    /\ pc = "idle"
    /\ webhook_url = ""
    /\ exit_status = "none"
    /\ seen_news = {}
    /\ feed_idx = 1 /\ entry_idx = 0 /\ served = 0
    /\ news_items = << >> /\ all_news = << >> /\ top_news = << >>
    /\ attempts = << >> /\ success_count = 0
    /\ op = NoOp
    /\ hist = HistInit
    /\ conc = NoRuns

Next ==
    \/ \E w \in Webhooks : Start(w)
    \/ \E e \in Entries : ProcessEntry(e)
    \/ FeedFails
    \/ FeedEnds
    \/ \E ok \in BOOLEAN : SendNext(ok)
    \/ Killed
    \/ \E e \in Entries, torn \in TornFiles : KilledInSave(e, torn)
    \/ \E d \in TimeSteps : Tick(d)

Spec == Init /\ [][Next]_vars


----------------------------------------------------------------------------
(* The store on its own: load_seen_news and save_seen_news called one      *)
(* after the other, each call in a process of its own, on any prior file   *)

IdA == generate_news_id("BREAKING: FOMC cuts rates", "Reuters Breaking News")
IdB == generate_news_id("CPI inflation report today", "Yahoo Finance")
StoreIds == {IdA, IdB}

\* the timestamps a prior file may hold: 50 h, 48 h, 47 h and 2 h before the
\* first call, or a string that is no ISO-8601 date
PriorStamps == { Iso(StartHour - 50), Iso(StartHour - RETENTION_HOURS),
                 Iso(StartHour - 47), Iso(StartHour - 2), BadTs }

StoreInitFiles ==
    { AbsentFile, EmptyFile, GarbageFile, NonDictFile }
    \cup { DictFile(d) : d \in UNION { [S -> PriorStamps] :
                                        S \in SUBSET StoreIds } }

StoreInit ==
    /\ variant = "v2026"
    /\ file \in StoreInitFiles
    /\ now = StartHour
    /\ pc = "idle"
    /\ webhook_url = ""
    /\ exit_status = "none"
    /\ seen_news = {}
    /\ feed_idx = 1 /\ entry_idx = 0 /\ served = 0
    /\ news_items = << >> /\ all_news = << >> /\ top_news = << >>
    /\ attempts = << >> /\ success_count = 0
    /\ op = NoOp
    /\ hist = HistInit
    /\ conc = NoRuns

StoreUnchanged ==
    UNCHANGED <<conc, variant, pc, webhook_url, exit_status, feed_idx,
                entry_idx, news_items, all_news, top_news, attempts,
                success_count, served, hist>>

\* save_seen_news(news_id); op remembers the last call on the store
StoreSave(news_id) ==
    /\ file' = save_seen_news(news_id, file, now)
    /\ op' = [name |-> "save", id |-> news_id, at |-> now, before |-> file]
    /\ UNCHANGED <<now, seen_news>>
    /\ StoreUnchanged

\* load_seen_news() in a fresh process
StoreLoad ==
    /\ LET r == load_seen_news(file, now)
       IN  /\ file' = r.file
           /\ seen_news' = r.ret
           /\ op' = [name |-> "load", at |-> now, before |-> file,
                     raised |-> r.raised,
                     after_save |-> (op.name = "save"),
                     saved_id |-> IF op.name = "save" THEN op.id ELSE IdA,
                     saved_at |-> IF op.name = "save" THEN op.at ELSE now]
    /\ UNCHANGED now
    /\ StoreUnchanged

\* time passes between two calls
StoreTick(d) ==
    /\ now + d <= MaxTime
    /\ now' = now + d
    /\ UNCHANGED <<file, seen_news, op>>
    /\ StoreUnchanged

StoreNext ==
    \/ \E news_id \in StoreIds : StoreSave(news_id)
    \/ StoreLoad
    \/ \E d \in TimeSteps : StoreTick(d)

SpecStore == StoreInit /\ [][StoreNext]_vars


----------------------------------------------------------------------------
(* The selection on its own: a run whose fetch is about to return, with    *)
(* any list of items that a fetch can have gathered                        *)

\* the items the feeds can have contributed: four titles from two feeds of
\* different priority (v2026), six titles from one feed (legacy)
SelectPool(v) ==
    IF v = "v2026"
    THEN { NewsItem(v, f, t) :
             f \in {x \in Range(FeedsOf(v)) :
                      x.name \in {"Reuters Breaking News", "Yahoo Finance"}},
             t \in {x \in SelectTitles :
                      Relevant(v, x) /\ ~Contains(x, "Crude")
                                     /\ ~Contains(x, "Government")} }
    ELSE { NewsItem(v, f, t) :
             f \in {x \in Range(FeedsOf(v)) : x.name = "Yahoo Finance"},
             t \in {x \in SelectTitles : Relevant(v, x)} }

\* the lists of at most k items a fetch can return: identities differ, and
\* the items of a feed visited earlier come first
RECURSIVE FetchedLists(_, _)
FetchedLists(v, k) ==
    IF k = 0 THEN { << >> }
    ELSE LET shorter == FetchedLists(v, k - 1)
             CanFollow(l, it) ==
                 /\ Len(l) = k - 1
                 /\ \A i \in 1..Len(l) : l[i].id # it.id
                 /\ Len(l) > 0 => l[Len(l)].priority >= it.priority
         IN  shorter \cup
             { Append(p[1], p[2]) :
                 p \in {q \in shorter \X SelectPool(v) : CanFollow(q[1], q[2])} }

SelectInit ==
    /\ variant \in {"v2026", "legacy"}
    /\ all_news \in FetchedLists(variant, MaxItems)
    /\ news_items = << >>
    /\ top_news = << >> /\ attempts = << >> /\ success_count = 0
    /\ now = StartHour
    /\ pc = "fetch"
    /\ webhook_url = "https://discord.example/webhook"
    /\ exit_status = "running"
    /\ feed_idx = Len(FeedsOf(variant)) /\ entry_idx = 0
    /\ served = Len(all_news)
    /\ seen_news = {it.id : it \in Range(all_news)}
    /\ file = IF variant = "v2026" /\ all_news # << >>
              THEN DictFile([k \in seen_news |-> Iso(now)])
              ELSE AbsentFile
    /\ op = NoOp
    /\ hist = [HistInit EXCEPT
                 !.runs = 1,
                 !.recorded = seen_news,
                 !.visited = [i \in 1..(Len(FeedsOf(variant)) - 1) |-> i],
                 !.emitted = {[title |-> it.title, source |-> it.source,
                               id |-> it.id, t |-> now, run |-> 1] :
                              it \in Range(all_news)}]
    /\ conc = NoRuns

SelectNext ==
    \/ FeedFails
    \/ FeedEnds
    \/ \E ok \in BOOLEAN : SendNext(ok)

SpecSelect == SelectInit /\ [][SelectNext]_vars

----------------------------------------------------------------------------
(* The message of an alert                                                 *)

\* any(word in title.upper() for word in q)
HasAny(title, q) ==
    LET title_upper == Upper(title)
    IN  \E i \in 1..Len(q) : Contains(title_upper, q[i])

\* a variation of format_discord_message: the score is looked at first
format_discord_message_by_score(news_item) ==
    LET is_urgent == HasAny(news_item.title, URGENT_TRIGGERS)
        high == news_item.score > 80
    IN  [color   |-> IF high THEN "0xFFA500"
                     ELSE IF is_urgent THEN "0xFF0000"
                     ELSE IF news_item.score > 50 THEN "0xFFFF00"
                     ELSE "0x00FF00",
         content |-> IF is_urgent \/ high
                     THEN "@here **High Impact Alert**" ELSE "",
         status  |-> ""]

\* BreakingNewsBot2026.format_discord_message: the colour of the embed and
\* the content of the message ("" stands for a message without content);
\* the message has no status field
format_discord_message(news_item) ==
    LET is_urgent == HasAny(news_item.title, URGENT_TRIGGERS)
    IN  [color   |-> IF is_urgent THEN "0xFF0000"
                     ELSE IF news_item.score > 80 THEN "0xFFA500"
                     ELSE IF news_item.score > 50 THEN "0xFFFF00"
                     ELSE "0x00FF00",
         content |-> IF is_urgent \/ news_item.score > 80
                     THEN "@here **High Impact Alert**" ELSE "",
         status  |-> ""]

\* the message built by BreakingNewsBot.send_to_discord: the colour of the
\* embed and its Status field; the message has no content
legacy_message(news_item) ==
    LET is_urgent == HasAny(news_item.title, LEGACY_URGENT_TRIGGERS)
    IN  [color   |-> IF is_urgent THEN "0xFF0000" ELSE "0x00ff00",
         content |-> "",
         status  |-> IF is_urgent THEN "HIGH IMPACT" ELSE "Market Info"]

----------------------------------------------------------------------------
(* The pure functions on their own: one call, on arguments drawn from the  *)
(* sets below                                                              *)

MaxWords == 2       \* phrases a drawn title is made of, at most

\* what the drawn titles are made of: urgency triggers, topic keywords,
\* recency phrases, an exclusion term, and words that are none of these
Phrases == << "BREAKING: FOMC cuts rates", "weather", "Energy crisis",
              "just in", "interest rate cut", "today", "stocks rally",
              "Powell", "Market crash" >>

\* the titles made of 1 to n phrases
RECURSIVE PhraseTitles(_)
PhraseTitles(n) ==
    IF n <= 1 THEN Range(Phrases)
    ELSE PhraseTitles(n - 1)
         \cup { t \o " " \o ph : t \in PhraseTitles(n - 1),
                                 ph \in Range(Phrases) }

\* the scores an item handed to the formatter may carry
Scores == {0, 30, 50, 60, 80, 90, 110}

\* a headline of 100 characters, and headlines that go on after it
Hundred == "Federal Reserve officials signal that the path of "
           \o "interest rates will depend on the incoming reports"

IdTitles == { "BREAKING: FOMC cuts rates", "CPI inflation report today",
              Hundred, Hundred \o " on jobs", Hundred \o " on prices" }

IdSources == { "Reuters Breaking News", "Reuters Business",
               "MarketWatch Top Stories", "MarketWatch", "Yahoo Finance" }

\* the calls that may be made in program v
PureCalls(v) ==
    { [name |-> "call", fn |-> "relevant", title |-> t] :
        t \in PhraseTitles(MaxWords) }
    \cup { [name |-> "call", fn |-> "id",
            t1 |-> t1, s1 |-> s1, t2 |-> t2, s2 |-> s2] :
           t1 \in IdTitles, s1 \in IdSources,
           t2 \in IdTitles, s2 \in IdSources }
    \cup ( IF v = "v2026"
           THEN { [name |-> "call", fn |-> "score", title |-> t] :
                    t \in PhraseTitles(MaxWords) }
                \cup { [name |-> "call", fn |-> "format",
                        title |-> t, score |-> n] :
                       t \in Range(Phrases), n \in Scores }
           ELSE { [name |-> "call", fn |-> "format",
                   title |-> t, score |-> 0] : t \in Range(Phrases) } )

PureInit ==
    /\ variant \in {"v2026", "legacy"}
    /\ op \in PureCalls(variant)
    /\ file = AbsentFile
    /\ now = StartHour
    /\ pc = "idle"
    /\ webhook_url = ""
    /\ exit_status = "none"
    /\ seen_news = {}
    /\ feed_idx = 1 /\ entry_idx = 0 /\ served = 0
    /\ news_items = << >> /\ all_news = << >> /\ top_news = << >>
    /\ attempts = << >> /\ success_count = 0
    /\ hist = HistInit
    /\ conc = NoRuns

PureUnchanged ==
    UNCHANGED <<conc, variant, file, now, pc, webhook_url, exit_status,
                seen_news, feed_idx, entry_idx, news_items, all_news,
                top_news, attempts, success_count, served, hist>>

\* score = calculate_impact_score(title)
ApplyScore ==
    /\ op.name = "call" /\ op.fn = "score"
    /\ op' = [name |-> "score", title |-> op.title,
              score |-> calculate_impact_score(op.title)]
    /\ PureUnchanged

\* is_relevant, score = self.is_relevant_news(title);  the legacy
\* self.is_major_news(title) returns no score
ApplyRelevance ==
    /\ op.name = "call" /\ op.fn = "relevant"
    /\ op' = IF variant = "v2026"
             THEN LET r == is_relevant_news(op.title)
                  IN  [name |-> "relevant", title |-> op.title,
                       relevant |-> r[1], score |-> r[2]]
             ELSE [name |-> "relevant", title |-> op.title,
                   relevant |-> is_major_news(op.title), score |-> 0]
    /\ PureUnchanged

\* two calls of generate_news_id (legacy: two identities computed inline)
ApplyIdentity ==
    /\ op.name = "call" /\ op.fn = "id"
    /\ op' = [name |-> "ids", t1 |-> op.t1, s1 |-> op.s1,
              t2 |-> op.t2, s2 |-> op.s2,
              id1 |-> IF variant = "v2026"
                      THEN generate_news_id(op.t1, op.s1)
                      ELSE legacy_news_id(op.t1),
              id2 |-> IF variant = "v2026"
                      THEN generate_news_id(op.t2, op.s2)
                      ELSE legacy_news_id(op.t2)]
    /\ PureUnchanged

\* message = self.format_discord_message(news); the legacy send_to_discord
\* builds its message itself
ApplyFormat ==
    /\ op.name = "call" /\ op.fn = "format"
    /\ LET news_item == [title |-> op.title, score |-> op.score]
       IN  op' = [name |-> "format", title |-> op.title, score |-> op.score,
                  message |-> IF variant = "v2026"
                              THEN format_discord_message(news_item)
                              ELSE legacy_message(news_item)]
    /\ PureUnchanged

PureNext ==
    \/ ApplyScore
    \/ ApplyRelevance
    \/ ApplyIdentity
    \/ ApplyFormat

SpecPure == PureInit /\ [][PureNext]_vars

----------------------------------------------------------------------------
(* Runs of BreakingNewsBot2026 that share seen_news.json.  Each run loads  *)
(* the store and handles one relevant entry.  load_seen_news and           *)
(* save_seen_news each read the file and later write it: between the two   *)
(* another run may step.  In mode "serial" a run steps only while no other *)
(* run is under way; in mode "interleaved" the steps mix freely.           *)

MaxProcs == 2       \* runs on the same backing file

Procs == 1..MaxProcs

\* a run: its position, self.seen_news, the identity of the entry at hand,
\* the content about to be written (json.dump's argument), and the
\* identities it has recorded
RunStart == [pc |-> "start", seen |-> {}, id |-> IdA,
             pending |-> AbsentFile, recorded |-> {}]

\* no other run is between its start and its end
Alone(p) == \A q \in Procs \ {p} : conc.runs[q].pc \in {"start", "done"}

MayStep(p) == conc.mode = "interleaved" \/ Alone(p)

RaceInit ==
    /\ variant = "v2026"
    /\ file \in InitFiles
    /\ conc \in { [mode |-> m, start_ok |-> Usable(file),
                   runs |-> [p \in Procs |-> RunStart]] :
                  m \in {"serial", "interleaved"} }
    /\ now = StartHour
    /\ pc = "idle"
    /\ webhook_url = "https://discord.example/webhook"
    /\ exit_status = "none"
    /\ seen_news = {}
    /\ feed_idx = 1 /\ entry_idx = 0 /\ served = 0
    /\ news_items = << >> /\ all_news = << >> /\ top_news = << >>
    /\ attempts = << >> /\ success_count = 0
    /\ op = NoOp
    /\ hist = HistInit

RaceUnchanged ==
    UNCHANGED <<variant, now, pc, webhook_url, exit_status, seen_news,
                feed_idx, entry_idx, news_items, all_news, top_news,
                attempts, success_count, served, op, hist>>

\* load_seen_news up to the end of its  with open(.., 'r'):  the file is
\* read and cleaned_data computed; an exception ends the load with set()
RaceLoadRead(p) ==
    /\ conc.runs[p].pc = "start"
    /\ MayStep(p)
    /\ LET r == load_seen_news(file, now)
       IN  conc' = [conc EXCEPT !.runs[p] =
                      [@ EXCEPT !.pc = IF ValidFile(file) THEN "load_write"
                                       ELSE "fetch",
                                !.seen = r.ret,
                                !.pending = r.file]]
    /\ UNCHANGED file
    /\ RaceUnchanged

\* load_seen_news: with open(.., 'w') as fw: json.dump(cleaned_data, fw)
RaceLoadWrite(p) ==
    /\ conc.runs[p].pc = "load_write"
    /\ MayStep(p)
    /\ file' = conc.runs[p].pending
    /\ conc' = [conc EXCEPT !.runs[p].pc = "fetch"]
    /\ RaceUnchanged

\* fetch_feed on a relevant entry of identity news_id: skipped when seen,
\* else appended and self.seen_news.add(news_id)
RaceEntry(p, news_id) ==
    /\ conc.runs[p].pc = "fetch"
    /\ MayStep(p)
    /\ conc' = IF AlreadySeen(news_id, conc.runs[p].seen)
               THEN [conc EXCEPT !.runs[p].pc = "done"]
               ELSE [conc EXCEPT !.runs[p] =
                       [@ EXCEPT !.pc = "save_read",
                                 !.id = news_id,
                                 !.seen = @ \cup {news_id},
                                 !.recorded = @ \cup {news_id}]]
    /\ UNCHANGED file
    /\ RaceUnchanged

\* save_seen_news up to  data[news_id] = ..: the file is read; an exception
\* ends the save
RaceSaveRead(p) ==
    /\ conc.runs[p].pc = "save_read"
    /\ MayStep(p)
    /\ conc' = [conc EXCEPT !.runs[p] =
                  [@ EXCEPT !.pc = IF SaveRewrites(file) THEN "save_write"
                                   ELSE "done",
                            !.pending =
                                save_seen_news(conc.runs[p].id, file, now)]]
    /\ UNCHANGED file
    /\ RaceUnchanged

\* save_seen_news: with open(.., 'w') as f: json.dump(data, f)
RaceSaveWrite(p) ==
    /\ conc.runs[p].pc = "save_write"
    /\ MayStep(p)
    /\ file' = conc.runs[p].pending
    /\ conc' = [conc EXCEPT !.runs[p].pc = "done"]
    /\ RaceUnchanged

RaceNext ==
    \/ \E p \in Procs : RaceLoadRead(p)
    \/ \E p \in Procs : RaceLoadWrite(p)
    \/ \E p \in Procs, news_id \in StoreIds : RaceEntry(p, news_id)
    \/ \E p \in Procs : RaceSaveRead(p)
    \/ \E p \in Procs : RaceSaveWrite(p)

SpecRace == RaceInit /\ [][RaceNext]_vars

----------------------------------------------------------------------------
(* One run from the first feed to its end, with feeds that serve as many   *)
(* entries as the loop will take.  Every call of the run returns or fails: *)
(* a step that can be taken is taken.                                      *)

\* the backing file the run found, as its constructor left it
PassFiles == { AbsentFile, DictFile([k \in {PriorId} |-> Iso(StartHour - 2)]) }

PassInit ==
    /\ variant \in {"v2026", "legacy"}
    /\ file \in (IF variant = "v2026" THEN PassFiles ELSE {AbsentFile})
    /\ now = StartHour
    /\ seen_news = (IF variant = "v2026"
                    THEN load_seen_news(file, now).ret ELSE {})
    /\ pc = "fetch"
    /\ webhook_url = "https://discord.example/webhook"
    /\ exit_status = "running"
    /\ feed_idx = 1 /\ entry_idx = 0 /\ served = 0
    /\ news_items = << >> /\ all_news = << >> /\ top_news = << >>
    /\ attempts = << >> /\ success_count = 0
    /\ op = NoOp
    /\ hist = [HistInit EXCEPT !.runs = 1, !.loaded = seen_news]
    /\ conc = NoRuns

\* the loop over the entries takes the next entry of the feed
PassEntry(e) == Examine(e) /\ UNCHANGED served

PassNext ==
    \/ \E e \in Entries : PassEntry(e)
    \/ FeedFails
    \/ FeedEnds
    \/ \E ok \in BOOLEAN : SendNext(ok)

SpecPass == PassInit /\ [][PassNext]_vars /\ WF_vars(PassNext)

----------------------------------------------------------------------------
(* Properties                                                              *)

\* the fetch of the current run has returned and the run went on
FetchReturned ==
    \/ pc = "send"
    \/ pc = "done" /\ exit_status = "0" /\ webhook_url # ""

\* C1: within one run, when two feeds of different priority carry the same
\* relevant title, only the copy of the higher-priority feed is emitted: no
\* two items emitted by a run have the same title and come from different
\* feeds.
C1_OneCopyPerTitle ==
    \A i, j \in 1..Len(Emitted) :
        (i # j /\ Emitted[i].title = Emitted[j].title)
            => Emitted[i].source = Emitted[j].source

\* C2: round trip of the store: whatever the file held before, after
\* save_seen_news(id) a load_seen_news() within the retention window returns
\* a set that contains id.
C2_RoundTrip ==
    (op.name = "load" /\ op.after_save
        /\ op.at - op.saved_at < RETENTION_HOURS)
    => op.saved_id \in seen_news

\* C3: marks survive a crash: when a run is killed at any step, the next
\* run's load returns every identity the killed run had recorded before that
\* step.  Stated for runs that found the file absent or well formed, where
\* every record reaches the file.
C3_CrashDurability ==
    (op.name = "start" /\ op.loads /\ op.prev_killed
        /\ op.prev_start_ok
        /\ now - op.prev_start < RETENTION_HOURS)
    => op.prev_recorded \subseteq seen_news

\* C4: cross-invocation deduplication: an entry (title, source) emitted by
\* one run is not emitted again by a later run that starts less than 48 hours
\* after it was recorded.
C4_NoReEmission ==
    (op.name = "entry" /\ op.outcome = "emitted")
    => \A h \in op.earlier :
          h.run < hist.runs => hist.start - h.t >= RETENTION_HOURS

\* C5: retention purge at load: after load_seen_news() on a well-formed file
\* the returned set and the rewritten file hold exactly the entries of the
\* previous file that are less than 48 hours old.
C5_PurgeAtLoad ==
    (op.name = "load" /\ ValidFile(op.before))
    => LET young == {k \in DOMAIN op.before.data :
                        op.at - op.before.data[k].t < 48}
       IN  /\ seen_news = young
           /\ file.kind = "dict"
           /\ DOMAIN file.data = young
           /\ \A k \in young : file.data[k] = op.before.data[k]

\* a load of a file with a 50-hour-old and a 2-hour-old entry kept the latter
C5_Witness ==
    /\ op.name = "load" /\ ValidFile(op.before)
    /\ DOMAIN op.before.data = {IdA, IdB}
    /\ op.at - op.before.data[IdA].t = 50
    /\ op.at - op.before.data[IdB].t = 2
    /\ seen_news = {IdB}
    /\ file = DictFile([k \in {IdB} |-> op.before.data[IdB]])

\* C6: tolerant load: when the file is absent, empty or malformed (not JSON,
\* not a mapping, or a timestamp that does not parse), the constructor's
\* load does not raise and returns the empty set, the file is left as it
\* was, and the run goes on to fetch the feeds.
C6_TolerantLoad ==
    (op.name = "start" /\ op.loads /\ ~ValidFile(op.file_before))
    => /\ seen_news = {}
       /\ pc = "fetch" /\ exit_status = "running"
       /\ file = op.file_before

\* a run has started on a file that is not JSON and is fetching
C6_Witness ==
    /\ op.name = "start" /\ op.loads
    /\ op.file_before = GarbageFile
    /\ pc = "fetch" /\ seen_news = {}

\* C7: within a run no two emitted items have the same identity, and no
\* emitted item has an identity that the load at the start of the run
\* returned.
C7_NoDuplicateIdentity ==
    /\ \A i, j \in 1..Len(Emitted) :
          i # j => Emitted[i].id # Emitted[j].id
    /\ \A i \in 1..Len(Emitted) : Emitted[i].id \notin hist.loaded

\* an entry was skipped as seen, in a run that loaded a non-empty store and
\* has emitted an item
C7_Witness ==
    /\ op.name = "entry" /\ op.outcome = "seen"
    /\ Len(Emitted) > 0
    /\ hist.loaded # {}

\* C8: a feed that fails does not stop the run: the items emitted before the
\* failure are in the result, the next feed is fetched, and when the fetch
\* returns every feed has been visited once and the result holds every item
\* the run has emitted.
C8_FailureIsolation ==
    /\ (op.name \in {"entry", "feed"} /\ op.outcome = "raised")
       => /\ Range(op.before) \subseteq Range(all_news)
          /\ \/ pc = "fetch" /\ feed_idx = op.feed + 1
             \/ op.feed = Len(FeedsOf(variant)) /\ FetchReturned
    /\ FetchReturned
       => /\ hist.visited = [i \in 1..Len(FeedsOf(variant)) |-> i]
          /\ {it.id : it \in Range(all_news)} = hist.recorded

\* an entry raised after its feed had emitted an item, and the run goes on
C8_Witness ==
    /\ op.name = "entry" /\ op.outcome = "raised" /\ op.in_feed > 0
    /\ pc = "fetch" /\ feed_idx = op.feed + 1
    /\ Len(all_news) > 0

\* C10: a run without webhook secret ends with a non-zero exit status, and
\* it has fetched no feed and attempted no delivery.
C10_MissingWebhookFatal ==
    (pc = "done" /\ webhook_url = "" /\ exit_status # "none")
    => /\ exit_status = "1"
       /\ hist.visited = << >>
       /\ attempts = << >>


\* item a goes before item b in the order of the alerts: greater score, or
\* equal score and greater priority
Outranks(a, b) ==
    a.score > b.score \/ (a.score = b.score /\ a.priority > b.priority)

Min(a, b) == IF a <= b THEN a ELSE b

\* the deliveries attempted so far are those of the selected items, in order
AttemptsFollow(selected) ==
    /\ Len(attempts) <= Len(selected)
    /\ \A k \in 1..Len(attempts) : attempts[k].id = selected[k].id
    /\ pc = "done" => Len(attempts) = Len(selected)

\* `selected` are m of the fetched items, each once
ChosenFrom(selected, m) ==
    /\ Len(selected) = m
    /\ Range(selected) \subseteq Range(hist.fetched)
    /\ \A i, j \in 1..m : i # j => selected[i].id # selected[j].id

\* `selected` is in alert order and no fetched item left out outranks one
\* that is in
BestFirst(selected) ==
    /\ \A i, j \in 1..Len(selected) :
          i < j => ~Outranks(selected[j], selected[i])
    /\ \A u \in Range(hist.fetched) \ Range(selected) :
          \A x \in Range(selected) : ~Outranks(u, x)

\* C9 as stated: run_once attempts delivery of the first min(3, n) of the n
\* emitted items in the order score descending, then priority descending;
\* no item left out outranks one that is sent; at most 3 deliveries a run.
C9_TopThree ==
    (FetchReturned /\ Len(hist.fetched) > 0)
    => /\ ChosenFrom(top_news, Min(3, Len(hist.fetched)))
       /\ BestFirst(top_news)
       /\ AttemptsFollow(top_news)
       /\ Len(attempts) <= 3

\* C9 as amended: BreakingNewsBot2026.run_once does as C9 states; the legacy
\* BreakingNewsBot.run_once attempts delivery of the first min(5, n) emitted
\* items in the order in which they were emitted.
C9_Selection ==
    (FetchReturned /\ Len(hist.fetched) > 0)
    => IF variant = "v2026"
       THEN /\ ChosenFrom(top_news, Min(3, Len(hist.fetched)))
            /\ BestFirst(top_news)
            /\ AttemptsFollow(top_news)
            /\ Len(attempts) <= 3
       ELSE /\ ChosenFrom(top_news, Min(5, Len(hist.fetched)))
            /\ \A k \in 1..Len(top_news) : top_news[k] = hist.fetched[k]
            /\ AttemptsFollow(top_news)
            /\ Len(attempts) <= 5

\* a run of BreakingNewsBot2026 fetched more than three items, the first of
\* them not the best, and has attempted its three deliveries
C9_Witness ==
    /\ variant = "v2026" /\ pc = "done"
    /\ Len(hist.fetched) > 3
    /\ Len(attempts) = 3
    /\ top_news[1] # hist.fetched[1]
    /\ \E u \in Range(hist.fetched) \ Range(top_news) :
          Outranks(top_news[3], u)


\* C11: a delivery that fails is not retried and does not stop the run:
\* the k-th attempt of a run is for the k-th selected item, no item is
\* attempted twice, a run that ends has attempted every selected item
\* whatever the earlier attempts returned, and the success count of
\* BreakingNewsBot2026.run_once is the number of attempts that returned 204.
\* (The legacy run_once keeps no count.)
C11_DeliveryNoRetry ==
    FetchReturned
    => /\ Len(attempts) <= Len(top_news)
       /\ \A k \in 1..Len(attempts) : attempts[k].id = top_news[k].id
       /\ \A i, j \in 1..Len(attempts) :
             i # j => attempts[i].id # attempts[j].id
       /\ pc = "done" => Len(attempts) = Len(top_news)
       /\ variant = "v2026"
          => success_count =
                Cardinality({k \in 1..Len(attempts) : attempts[k].ok})

\* a run of BreakingNewsBot2026 has ended after three attempts, the first
\* and the last of which failed
C11_Witness ==
    /\ variant = "v2026" /\ pc = "done" /\ exit_status = "0"
    /\ Len(top_news) = 3 /\ Len(attempts) = 3
    /\ ~attempts[1].ok /\ attempts[2].ok /\ ~attempts[3].ok
    /\ success_count = 1


\* C12: exclusion short-circuit: for every title that contains an exclusion
\* term, the relevance check (is_relevant_news, is_major_news) answers not
\* relevant, with score 0, whatever triggers and keywords the title has.
C12_ExclusionShortCircuit ==
    (op.name = "relevant" /\ HasAny(op.title, irrelevant_terms))
    => (~op.relevant /\ op.score = 0)

\* C13: urgency dominates: for every title with at least one urgency
\* trigger calculate_impact_score returns at least 30, and is_relevant_news
\* finds the title relevant when it has no exclusion term.
C13_UrgencyDominates ==
    /\ (op.name = "score" /\ HasAny(op.title, URGENT_TRIGGERS))
       => op.score >= 30
    /\ (op.name = "relevant" /\ variant = "v2026"
          /\ HasAny(op.title, URGENT_TRIGGERS)
          /\ ~HasAny(op.title, irrelevant_terms))
       => (op.relevant /\ op.score >= 30)

\* a title with an urgency trigger and no topic keyword was found relevant
C13_Witness ==
    /\ op.name = "relevant" /\ variant = "v2026"
    /\ op.title = "Market crash"
    /\ ~HasAny(op.title, HIGH_IMPACT_ES_NQ)
    /\ op.relevant /\ op.score = 100

\* the entries of the list q that occur in the title, upper-cased
MatchesIn(title, q) ==
    LET title_upper == Upper(title)
    IN  {i \in 1..Len(q) : Contains(title_upper, q[i])}

\* the words of a keyword: one more than its blanks
WordsOf(k) == Cardinality({i \in 1..Len(k) : SubSeq(k, i, i) = " "}) + 1

\* the sum of the word counts of the keywords q[i], i in S
RECURSIVE SumWords(_, _)
SumWords(q, S) ==
    IF S = {} THEN 0
    ELSE LET i == CHOOSE x \in S : TRUE
         IN  WordsOf(q[i]) + SumWords(q, S \ {i})

\* the score that the formula of C14 gives a title
FormulaScore(title) ==
      100 * Cardinality(MatchesIn(title, URGENT_TRIGGERS))
    + 10 * SumWords(HIGH_IMPACT_ES_NQ, MatchesIn(title, HIGH_IMPACT_ES_NQ))
    + 20 * Cardinality(MatchesIn(title, recent_keywords))

\* C14: scoring formula: calculate_impact_score returns 100 x the number of
\* urgency triggers in the title + 10 x the sum of the word counts of the
\* topic keywords in it + 20 x the number of recency phrases in it, each
\* counted on its own even when matches overlap; for a title without
\* exclusion term is_relevant_news returns that score, and relevant iff the
\* score is at least 30; "BREAKING: FOMC cuts rates" scores 110, relevant.
C14_ScoringFormula ==
    /\ op.name = "score" => op.score = FormulaScore(op.title)
    /\ (op.name = "relevant" /\ variant = "v2026"
          /\ ~HasAny(op.title, irrelevant_terms))
       => /\ op.score = FormulaScore(op.title)
          /\ op.relevant <=> op.score >= 30
    /\ (op.name = "relevant" /\ variant = "v2026"
          /\ op.title = "BREAKING: FOMC cuts rates")
       => (op.relevant /\ op.score = 110)

\* a title in which a trigger lies inside a two-word keyword, followed by a
\* three-word keyword: 100 + 20 + 30
C14_Witness ==
    /\ op.name = "relevant" /\ variant = "v2026"
    /\ op.title = "Energy crisis interest rate cut"
    /\ op.relevant /\ op.score = 150


\* the identities the backing file holds
StoredIds == IF file.kind = "dict" THEN DOMAIN file.data ELSE {}

\* every run on the file has finished, and an identity that one of them
\* recorded is not in the file
LostUpdate ==
    /\ \A p \in Procs : conc.runs[p].pc = "done"
    /\ \E p \in Procs : ~(conc.runs[p].recorded \subseteq StoredIds)

\* C15, second half: with the runs executed one at a time, no identity that
\* a run has recorded is missing from the file when the runs have finished.
\* (First half: with interleaved steps such a state is reachable, see
\* RaceLosesUpdate.)
C15_SerialKeepsAll == conc.mode = "serial" => ~LostUpdate

\* the same, for runs that found the file absent or a well-formed mapping
SerialKeepsAllWhenUsable ==
    (conc.mode = "serial" /\ conc.start_ok) => ~LostUpdate

\* two interleaved runs on an absent or well-formed file have finished, each
\* has recorded an identity, and one of the two is not in the file
RaceLosesUpdate ==
    /\ conc.mode = "interleaved" /\ conc.start_ok
    /\ LostUpdate
    /\ \A p \in Procs : conc.runs[p].recorded # {}


\* the two calls agree on the first 100 characters of the title and on the
\* first 10 characters of the source
SamePrefixes ==
    /\ Prefix(op.t1, 100) = Prefix(op.t2, 100)
    /\ Prefix(op.s1, 10) = Prefix(op.s2, 10)

\* C16 as stated: two calls whose title prefixes (100 characters) and source
\* prefixes (10 characters) agree return the same token, and two distinct
\* titles with the same source return different tokens.
C16_PrefixFunction ==
    op.name = "ids"
    => /\ SamePrefixes => op.id1 = op.id2
       /\ (op.t1 # op.t2 /\ op.s1 = op.s2) => op.id1 # op.id2

\* C16 as amended: generate_news_id returns the same token for two calls
\* exactly when the title prefixes and the source prefixes agree (feed names
\* as sources), so that two distinct titles with the same source get
\* different tokens exactly when they differ within their first 100
\* characters; the legacy identity is the hash of the whole title, the same
\* for two calls exactly when the titles are equal, whatever the source.
C16_Identity ==
    op.name = "ids"
    => IF variant = "v2026"
       THEN /\ op.id1 = op.id2 <=> SamePrefixes
            /\ op.s1 = op.s2
               => (op.id1 # op.id2
                     <=> Prefix(op.t1, 100) # Prefix(op.t2, 100))
       ELSE op.id1 = op.id2 <=> op.t1 = op.t2

\* generate_news_id gave one token to two titles that differ after their
\* 100th character, from two sources that differ after their 10th
C16_Witness ==
    /\ op.name = "ids" /\ variant = "v2026"
    /\ op.t1 # op.t2 /\ Len(op.t1) > 100 /\ Len(op.t2) > 100
    /\ op.s1 # op.s2
    /\ op.id1 = op.id2


\* the severity tier that the colour of a message stands for
TierOf(message) ==
    CASE message.color = "0xFF0000" -> "urgent"
      [] message.color = "0xFFA500" -> "high-score"
      [] message.color = "0xFFFF00" -> "mid-score"
      [] OTHER -> "default"

\* the message carries the high-impact mention: the content "@here **High
\* Impact Alert**", or the Status "HIGH IMPACT" of the legacy message
HighImpactMention(message) ==
    message.content = "@here **High Impact Alert**"
    \/ message.status = "HIGH IMPACT"

\* C17: the tier of a formatted message is urgent iff the title holds an
\* urgency trigger of the program, whatever the score; otherwise high-score
\* iff score > 80; otherwise mid-score iff score > 50; otherwise default;
\* and the message carries the high-impact mention iff the tier is urgent
\* or high-score.  (A legacy item has no score: 0 stands for it.)
C17_SeverityTier ==
    op.name = "format"
    => LET urgent == HasAny(op.title,
                            IF variant = "v2026" THEN URGENT_TRIGGERS
                            ELSE LEGACY_URGENT_TRIGGERS)
           tier == TierOf(op.message)
       IN  /\ tier = "urgent" <=> urgent
           /\ ~urgent =>
                /\ tier = "high-score" <=> op.score > 80
                /\ tier = "mid-score" <=> (op.score <= 80 /\ op.score > 50)
                /\ tier = "default" <=> op.score <= 50
           /\ HighImpactMention(op.message)
                <=> tier \in {"urgent", "high-score"}

\* an item without urgency trigger and with score 90 was formatted: orange,
\* with the mention
C17_Witness ==
    /\ op.name = "format" /\ variant = "v2026"
    /\ ~HasAny(op.title, URGENT_TRIGGERS)
    /\ op.score = 90
    /\ TierOf(op.message) = "high-score"
    /\ HighImpactMention(op.message)


\* file g is file f with the entry of news_id set, and nothing else changed
ChangedByOnly(f, g, news_id) ==
    /\ g.kind = "dict"
    /\ DOMAIN g.data = (IF f.kind = "dict" THEN DOMAIN f.data ELSE {})
                       \cup {news_id}
    /\ \A k \in DOMAIN g.data \ {news_id} : g.data[k] = f.data[k]

\* a step of the aggregator: an entry is processed or a feed returns
AggregatorStep == pc = "fetch" /\ op'.name \in {"entry", "feed"}

\* C18: frame of the aggregator: a step that processes an entry which is not
\* relevant or whose identity is in the seen set (or that ends a feed) emits
\* nothing and leaves self.seen_news and the file as they were; the seen set
\* and the file change only in a step that emits an item: the seen set gains
\* exactly the item's identity, and the file, when it is written, gains
\* exactly the entry of that identity.
C18_AggregatorFrame ==
    [][ AggregatorStep
        => IF op'.name = "entry" /\ op'.outcome = "emitted"
           THEN /\ op'.item.id \notin seen_news
                /\ seen_news' = seen_news \cup {op'.item.id}
                /\ Range(all_news' \o news_items')
                     = Range(Emitted) \cup {op'.item}
                /\ \/ file' = file
                   \/ ChangedByOnly(file, file', op'.item.id)
           ELSE /\ seen_news' = seen_news
                /\ file' = file
                /\ Range(all_news' \o news_items') = Range(Emitted)
      ]_vars

\* an entry with an exclusion term was processed by a run whose store holds
\* an identity: nothing was emitted
C18_Witness ==
    /\ op.name = "entry" /\ op.outcome = "irrelevant"
    /\ variant = "v2026"
    /\ seen_news # {} /\ file.kind = "dict" /\ DOMAIN file.data = seen_news
    /\ Len(Emitted) = Len(op.before)


\* a delivery of the item has returned 204 in the current run
Delivered(item) ==
    \E k \in 1..Len(attempts) : attempts[k].id = item.id /\ attempts[k].ok

\* the current run of BreakingNewsBot2026 has ended, and every item it
\* emitted and did not deliver is in the file
UndeliveredAreStored ==
    (variant = "v2026" /\ pc = "done" /\ exit_status = "0"
        /\ webhook_url # "")
    => \A i \in 1..Len(all_news) :
          ~Delivered(all_news[i]) => all_news[i].id \in StoredIds

\* C19: an identity is recorded at emission, before and whatever becomes of
\* the delivery: when a run has ended, every item it emitted and did not
\* deliver (left out of the top 3, or its attempt failed) is in the file,
\* and no later run that starts within 48 hours emits it again.
C19_RecordedBeforeDelivery ==
    /\ UndeliveredAreStored
    /\ (variant = "v2026" /\ op.name = "entry" /\ op.outcome = "emitted")
       => \A h \in op.earlier :
             h.run < hist.runs => hist.start - h.t >= RETENTION_HOURS

\* the first half of C19 for runs that found the file absent or a
\* well-formed mapping
UndeliveredAreStoredWhenUsable == hist.start_ok => UndeliveredAreStored


\* the constructor of BreakingNewsBot2026 has just loaded the store
JustLoaded == op.name = "start" /\ op.loads

\* C20 as stated: once load_seen_news has purged the entry of an identity,
\* no later operation of that run or of a later run adds an entry for that
\* identity to the store, and every entry in the store right after a load
\* has a timestamp within the last 48 hours.
C20_NeverReAdded ==
    /\ \A e \in hist.purged : e.id \notin StoredIds
    /\ JustLoaded
       => \A k \in StoredIds :
             file.data[k].iso /\ now - file.data[k].t < RETENTION_HOURS

\* C20 as amended: an entry that load_seen_news has purged is never put back
\* with the timestamp it had; its identity is in the store again only when
\* a run has emitted the item anew after the purge, and then with the
\* timestamp of that emission; and right after a load of a well-formed file
\* every entry has a timestamp within the last 48 hours.
C20_PurgedOnlyReEmitted ==
    /\ \A e \in hist.purged :
          e.id \in StoredIds
          => /\ file.data[e.id] # e.ts
             /\ \E h \in hist.emitted :
                   /\ h.id = e.id /\ h.t >= e.at
                   /\ file.data[e.id] = Iso(h.t)
    /\ (JustLoaded /\ ValidFile(op.file_before))
       => \A k \in StoredIds :
             file.data[k].iso /\ now - file.data[k].t < RETENTION_HOURS

\* the load of this run purged an identity, and the run has emitted the
\* item again and recorded it: the identity is back in the file
C20_Witness ==
    \E e \in hist.purged :
        /\ e.at = hist.start
        /\ e.id \in hist.recorded
        /\ e.id \in StoredIds
        /\ file.data[e.id] = Iso(now)


\* the feeds whose fetch has returned in this run, in the order of the visits
VisitedFeeds ==
    [i \in 1..Len(hist.visited) |-> FeedsOf(variant)[hist.visited[i]]]

\* the feeds of q are pairwise different and in descending priority order
DescendingOnce(q) ==
    \A i, j \in 1..Len(q) :
        i < j => (q[i].name # q[j].name /\ q[i].priority > q[j].priority)

\* the pass of BreakingNewsBot2026 over the feeds, as far as it has come:
\* no feed visited twice, the visits in descending priority order, the feed
\* at hand of lower priority than those visited, at most 10 entries of it
\* examined, an emitted item appended behind those emitted before it; and
\* when fetch_all_news has returned, every feed of RSS_FEEDS visited, the
\* list returned is the items in the order of their emission: grouped by
\* feed, the feeds in descending priority order.
OrderedPass ==
    /\ entry_idx <= 10
    /\ DescendingOnce(VisitedFeeds)
    /\ pc = "fetch"
       => \A i \in 1..Len(VisitedFeeds) :
             VisitedFeeds[i].priority > FeedsOf(variant)[feed_idx].priority
    /\ (op.name = "entry" /\ op.outcome = "emitted")
       => /\ Emitted = Append(op.before, op.item)
          /\ op.item.source = FeedsOf(variant)[op.feed].name
          /\ op.item.priority = FeedsOf(variant)[op.feed].priority
    /\ FetchReturned
       => /\ Range(VisitedFeeds) = Range(RSS_FEEDS)
          /\ Len(VisitedFeeds) = Len(RSS_FEEDS)
          /\ \A i, j \in 1..Len(hist.fetched) :
                i < j => hist.fetched[i].priority >= hist.fetched[j].priority
          /\ \A i, j \in 1..Len(hist.fetched) :
                hist.fetched[i].priority = hist.fetched[j].priority
                <=> hist.fetched[i].source = hist.fetched[j].source
    /\ (op.name \in {"entry", "feed"} /\ op.outcome \in {"raised", "returned"}
          /\ op.feed = Len(RSS_FEEDS))
       => hist.fetched = op.before

\* C21: one finite ordered pass: every run ends, given that every fetch and
\* every delivery returns or fails; BreakingNewsBot2026 visits each feed of
\* RSS_FEEDS once, in descending priority order, examines at most 10 entries
\* of a feed, and fetch_all_news returns the items grouped by feed in that
\* order, within a feed in the order of the entries.
C21_OneOrderedPass ==
    /\ [](variant = "v2026" => OrderedPass)
    /\ <>(pc = "done")

\* the loop has examined 10 entries of the second feed that served any, and
\* holds two items of it behind the two items of the first
C21_Witness ==
    /\ variant = "v2026" /\ pc = "fetch"
    /\ entry_idx = 10
    /\ Len(all_news) = 2 /\ Len(news_items) = 2
    /\ all_news[1].priority > news_items[1].priority

=============================================================================
